---------------------------- MODULE Spec2Model ----------------------------
(***************************************************************************)
(* A model of src/main.py, the MEIGA-SR command-line orchestrator: the     *)
(* dependency gates, argument parsing, output-directory set-up, the        *)
(* resolution of the configuration dictionary from the MEIGA-SR section of *)
(* the config file, the log system, the database gate and the dispatch to  *)
(* one of the two callers.                                                 *)
(*                                                                         *)
(* Python values are records [kind, val]; text that the script takes apart *)
(* (config values, reference names) is a sequence of one-character         *)
(* strings, a path is the sequence of its '/'-separated components.        *)
(*                                                                         *)
(* What the collaborators return (the gates of check_dependencies,         *)
(* bamtools.get_refs, the caller's call()) is chosen when they are called. *)
(* The file system grants every os.makedirs, and the constructors of the   *)
(* callers return.                                                         *)
(***************************************************************************)
EXTENDS Integers, Sequences, FiniteSets, TLC

\* ------------------------------------------------------------------ bounds
\* Longest config value explored by the list-splitting specification.
MaxLen == 4
\* Seconds the wall clock may advance during one run.
MaxTick == 1
\* Most reference sequences in the header of the primary BAM file.
MaxRefs == 2
\* Second of the minute at which the run starts.
ClockStart == 58

\* ----------------------------------------------------------- Python values
PyNone == [kind |-> "NoneType", val |-> <<>>]
Unbound == [kind |-> "unbound", val |-> <<>>]
PyStr(s) == [kind |-> "str", val |-> s]
PyInt(n) == [kind |-> "int", val |-> n]
\* A float read from decimal text: num / 10^scale.
PyFloat(num, scale) == [kind |-> "float", val |-> <<num, scale>>]
PyBool(b) == [kind |-> "bool", val |-> b]
PyList(xs) == [kind |-> "list", val |-> xs]

IsNone(v) == v.kind = "NoneType"

\* Python truth value of the values the script tests with `if`.
Truthy(v) ==
    CASE v.kind = "NoneType" -> FALSE
      [] v.kind = "str" -> Len(v.val) > 0
      [] v.kind = "list" -> Len(v.val) > 0
      [] v.kind = "bool" -> v.val
      [] v.kind = "int" -> v.val # 0
      [] OTHER -> TRUE

\* ------------------------------------------------------------------ text
Whitespace == {" ", "\t", "\n", "\r", "\f"}
Digits == {"0", "1", "2", "3", "4", "5", "6", "7", "8", "9"}

DigitVal(c) ==
    CASE c = "0" -> 0 [] c = "1" -> 1 [] c = "2" -> 2 [] c = "3" -> 3
      [] c = "4" -> 4 [] c = "5" -> 5 [] c = "6" -> 6 [] c = "7" -> 7
      [] c = "8" -> 8 [] c = "9" -> 9

RECURSIVE LStrip(_)
LStrip(s) ==
    IF s = <<>> THEN <<>>
    ELSE IF Head(s) \in Whitespace THEN LStrip(Tail(s)) ELSE s

RECURSIVE RStrip(_)
RStrip(s) ==
    IF s = <<>> THEN <<>>
    ELSE IF s[Len(s)] \in Whitespace THEN RStrip(SubSeq(s, 1, Len(s) - 1)) ELSE s

\* str.strip()
Strip(s) == RStrip(LStrip(s))

\* str.split(sep): a left-to-right scan; every separator closes a segment, an
\* empty segment included, and the end of the text closes the last one.
RECURSIVE SplitFrom(_, _, _, _)
SplitFrom(s, sep, cur, acc) ==
    IF s = <<>> THEN Append(acc, cur)
    ELSE IF Head(s) = sep THEN SplitFrom(Tail(s), sep, <<>>, Append(acc, cur))
    ELSE SplitFrom(Tail(s), sep, Append(cur, Head(s)), acc)

Split(s, sep) == SplitFrom(s, sep, <<>>, <<>>)

\* sep.join(parts)
RECURSIVE Join(_, _)
Join(parts, sep) ==
    IF parts = <<>> THEN <<>>
    ELSE IF Len(parts) = 1 THEN parts[1]
    ELSE parts[1] \o <<sep>> \o Join(Tail(parts), sep)

\* A split that drops the empty segments, as str.split() without a separator does.
SplitStrip_DropEmpty(s) ==
    LET segs == Split(s, ",")
        kept == SelectSeq(segs, LAMBDA seg : Strip(seg) # <<>>)
    IN  [i \in 1..Len(kept) |-> Strip(kept[i])]

\* [x.strip() for x in s.split(',')]
SplitStrip(s) ==
    LET segs == Split(s, ",")
    IN  [i \in 1..Len(segs) |-> Strip(segs[i])]

RECURSIVE DigitsValue(_, _)
DigitsValue(s, acc) ==
    IF s = <<>> THEN acc ELSE DigitsValue(Tail(s), 10 * acc + DigitVal(Head(s)))

AllDigits(s) == s # <<>> /\ \A i \in 1..Len(s) : s[i] \in Digits

\* The sign and the unsigned rest of stripped numeric text.
SignOf(t) == IF t # <<>> /\ Head(t) = "-" THEN -1 ELSE 1
Unsigned(t) == IF t # <<>> /\ Head(t) \in {"-", "+"} THEN Tail(t) ELSE t

\* int(text) on decimal text: surrounding whitespace, an optional sign, digits.
\* (Underscore digit grouping is outside the texts explored.)
ParseInt(s) ==
    LET u == Unsigned(Strip(s))
    IN  IF AllDigits(u)
        THEN [ok |-> TRUE, val |-> PyInt(SignOf(Strip(s)) * DigitsValue(u, 0))]
        ELSE [ok |-> FALSE, val |-> PyNone]

\* float(text) on plain decimal text: an optional sign, digits, an optional
\* fraction. (Exponents, inf and nan are outside the texts explored.)
ParseFloat(s) ==
    LET t == Strip(s)
        u == Unsigned(t)
        parts == Split(u, ".")
        whole == parts[1]
        frac == IF Len(parts) = 2 THEN parts[2] ELSE <<>>
        wellFormed ==
            /\ Len(parts) \in {1, 2}
            /\ whole \o frac # <<>>
            /\ \A i \in 1..Len(whole) : whole[i] \in Digits
            /\ \A i \in 1..Len(frac) : frac[i] \in Digits
    IN  IF wellFormed
        THEN [ok |-> TRUE,
              val |-> PyFloat(SignOf(t) * DigitsValue(whole \o frac, 0), Len(frac))]
        ELSE [ok |-> FALSE, val |-> PyNone]

Lower(c) ==
    CASE c = "T" -> "t" [] c = "F" -> "f" [] c = "Y" -> "y" [] c = "N" -> "n"
      [] c = "O" -> "o" [] OTHER -> c

LowerStr(s) == [i \in 1..Len(s) |-> Lower(s[i])]

\* configparser's BOOLEAN_STATES, applied to value.lower().
TrueTexts == {<<"1">>, <<"y", "e", "s">>, <<"t", "r", "u", "e">>, <<"o", "n">>}
FalseTexts == {<<"0">>, <<"n", "o">>, <<"f", "a", "l", "s", "e">>, <<"o", "f", "f">>}

ParseBoolean(s) ==
    IF LowerStr(s) \in TrueTexts THEN [ok |-> TRUE, val |-> PyBool(TRUE)]
    ELSE IF LowerStr(s) \in FalseTexts THEN [ok |-> TRUE, val |-> PyBool(FALSE)]
    ELSE [ok |-> FALSE, val |-> PyNone]


\* ----------------------------------------------------------- config file
VERSION == <<"1", ".", "1", ".", "0">>
SectionName == "MEIGA-SR"

StrKeys == {"reference", "refDir", "species", "build", "annovarDir"}
SentinelKeys == {"germlineMEI", "targetBins", "sourceBed"}
IntKeys == {"binSize", "minMAPQ", "minCLIPPINGlen", "minClusterSize",
            "maxClusterSize", "BKPdist", "minPercOverlap", "equalOrientBuffer",
            "oppositeOrientBuffer", "minReads", "minNormalReads"}
FloatKeys == {"minReadsRegionMQ", "maxRegionlowMQ", "maxRegionSMS"}
BoolKeys == {"noDuplicates", "wgsData", "blatClip"}
ListKeys == {"readFilters", "refs", "transductionEnds", "srcFamilies"}
ConfigKeys == StrKeys \cup SentinelKeys \cup IntKeys \cup FloatKeys \cup BoolKeys \cup ListKeys

NoneText == <<"n", "o", "n", "e">>
AllText == <<"A", "L", "L">>

\* A config file in which every key is present and well formed.
DefaultOptions ==
    [k \in ConfigKeys |->
        IF k \in StrKeys THEN <<"x">>
        ELSE IF k \in SentinelKeys THEN NoneText
        ELSE IF k \in IntKeys THEN <<"3">>
        ELSE IF k \in FloatKeys THEN <<"0", ".", "5">>
        ELSE IF k \in BoolKeys THEN <<"T", "r", "u", "e">>
        ELSE <<"a", ",", " ", "b">>]

\* Other values a key's line may hold.
Variants(k) ==
    IF k \in StrKeys THEN {}
    ELSE IF k \in SentinelKeys THEN {<<"f">>}
    ELSE IF k \in IntKeys THEN {<<"0">>, <<"-", "1">>, <<"x">>}
    ELSE IF k \in FloatKeys THEN {<<"-", "0", ".", "5">>, <<"x">>}
    ELSE IF k \in BoolKeys THEN {<<"n", "o">>, <<"m", "a", "y", "b", "e">>}
    ELSE {<<>>, <<"a", ",", ",", "b">>, <<"a", " ", ",", "a", ",">>}
         \cup (IF k = "refs" THEN {AllText} ELSE {})

Without(d, k) == [x \in DOMAIN d \ {k} |-> d[x]]
Put(d, k, v) == [x \in DOMAIN d \cup {k} |-> IF x = k THEN v ELSE d[x]]
EmptyDict == [x \in {} |-> PyNone]

\* The option sets explored: the default file, and the default file with one
\* key's line removed or changed.
OptionSets ==
    {DefaultOptions}
    \cup {Without(DefaultOptions, k) : k \in ConfigKeys}
    \cup UNION {{[DefaultOptions EXCEPT ![k] = v] : v \in Variants(k)} : k \in ConfigKeys}

\* What ConfigParser.read leaves: the sections by name. A file that is missing
\* or has no MEIGA-SR section leaves none.
ConfigFiles == {[s \in {} |-> EmptyDict]} \cup {[s \in {SectionName} |-> o] : o \in OptionSets}

\* ------------------------------------------------------------------ state
VARIABLES
    pc,             \* the statement the script is at
    exitCode,       \* the process's exit status, once pc = "exit"
    raised,         \* the uncaught exception that ended the run, "" if none
    errorArg,       \* what that exception's message names
    gateCalls,      \* the dependency gates called so far, in order
    gateResult,     \* gate name -> the collection it returned
    args,           \* the argparse Namespace
    outDir,         \* the script's outDir variable, a path
    timeStamp,      \* the script's timeStamp variable
    mode,           \* the script's mode variable
    meigaConfig,    \* the ConfigParser after read()
    configRead,     \* whether meigaConfig.read() ran
    readKeys,       \* the option names looked up in the section so far
    reference,      \* the script's reference variable
    refDir,         \* the script's refDir variable
    confDict,       \* the configuration dictionary
    bamRefs,        \* the reference names of the BAM header get_refs read
    getRefsCalls,   \* calls of bamtools.get_refs
    now,            \* the wall clock, in seconds
    fs,             \* the directories that exist
    made,           \* the paths given to os.makedirs
    files,          \* the files the run created
    logger,         \* whether the log system is initialised
    engines,        \* the callers constructed, in order
    calls,          \* calls of meiCaller.call()
    listIn,         \* list-splitting specification: the config value
    listOut         \* list-splitting specification: the resolved list

runVars == <<pc, exitCode, raised, errorArg, gateCalls, gateResult, args, outDir,
             timeStamp, mode, meigaConfig, configRead, readKeys, reference, refDir,
             confDict, bamRefs, getRefsCalls, now, fs, made, files, logger,
             engines, calls>>
listVars == <<listIn, listOut>>
vars == <<runVars, listVars>>

\* The current working directory, argparse's default for --outDir.
Cwd == <<"cwd">>
InitialDirs == {Cwd}

InitRun ==
    /\ pc = "gate"
    /\ exitCode = 0
    /\ raised = ""
    /\ errorArg = ""
    /\ gateCalls = <<>>
    /\ gateResult = [g \in {} |-> {}]
    /\ args = [a \in {} |-> PyNone]
    /\ outDir = <<>>
    /\ timeStamp = ""
    /\ mode = ""
    /\ meigaConfig = [s \in {} |-> EmptyDict]
    /\ configRead = FALSE
    /\ readKeys = {}
    /\ reference = Unbound
    /\ refDir = Unbound
    /\ confDict = EmptyDict
    /\ bamRefs = <<>>
    /\ getRefsCalls = 0
    /\ now = ClockStart
    /\ fs = InitialDirs
    /\ made = {}
    /\ files = {}
    /\ logger = FALSE
    /\ engines = <<>>
    /\ calls = 0

Init ==
    /\ InitRun
    /\ listIn = <<>>
    /\ listOut = <<>>

\* exit(status), or an uncaught exception (status 1 with a traceback).
Exit(status, exc, arg) ==
    /\ pc' = "exit"
    /\ exitCode' = status
    /\ raised' = exc
    /\ errorArg' = arg

Goto(next) ==
    /\ pc' = next
    /\ UNCHANGED <<exitCode, raised, errorArg>>

\* Variable groups, for UNCHANGED.
ctlVars == <<pc, exitCode, raised, errorArg>>
gateVars == <<gateCalls, gateResult>>
dirVars == <<outDir, timeStamp, fs, made>>
cfgVars == <<meigaConfig, configRead, readKeys, reference, refDir, confDict>>
bamVars == <<bamRefs, getRefsCalls>>
logVars == <<files, logger>>
engVars == <<engines, calls>>

\* --------------------------------------------------- 1. dependency gate
\* What a gate of check_dependencies may return: the missing names.
GateReturns == {{}, {"missing"}}

\* The gate without its second operand: only the Python dependencies are checked.
DependencyGate_PythonOnly ==
    /\ pc = "gate"
    /\ \E py \in GateReturns, prog \in GateReturns :
        /\ gateCalls' = <<"missing_python_dependencies", "missing_program_dependencies">>
        /\ gateResult' = [g \in {"missing_python_dependencies", "missing_program_dependencies"} |->
                            IF g = "missing_python_dependencies" THEN py ELSE prog]
        /\ IF py # {} THEN Exit(1, "", "") ELSE Goto("parse")
    /\ UNCHANGED <<args, mode, dirVars, cfgVars, bamVars, now, logVars, engVars, listVars>>

\* missingDependencies = cd.missing_python_dependencies() or cd.missing_program_dependencies()
\* if missingDependencies: exit(1)
\* (`or` calls its second operand only when the first is empty.)
DependencyGate ==
    /\ pc = "gate"
    /\ \E py \in GateReturns :
        IF py # {}
        THEN /\ gateCalls' = <<"missing_python_dependencies">>
             /\ gateResult' = [g \in {"missing_python_dependencies"} |-> py]
             /\ Exit(1, "", "")
        ELSE \E prog \in GateReturns :
             /\ gateCalls' = <<"missing_python_dependencies", "missing_program_dependencies">>
             /\ gateResult' = [g \in {"missing_python_dependencies", "missing_program_dependencies"} |->
                                 IF g = "missing_python_dependencies" THEN py ELSE prog]
             /\ IF prog # {} THEN Exit(1, "", "") ELSE Goto("parse")
    /\ UNCHANGED <<args, mode, dirVars, cfgVars, bamVars, now, logVars, engVars, listVars>>

\* ------------------------------------------------------ 2. user's input
NormalBams == {PyNone, PyStr(<<>>), PyStr(<<"n">>)}
OutDirs == {Cwd, <<"out">>}
ProcessCounts == {0, 1, 2}

\* The Namespace of subcommand call.
CallArgs(normalBam, dir, processes, debug, predict) ==
    [call_tds |-> FALSE, config |-> "config.ini", bam |-> "tumour.bam",
     normalBam |-> normalBam, outDir |-> dir, processes |-> PyInt(processes),
     debug |-> PyBool(debug), predict |-> PyBool(predict)]

\* The Namespace of subcommand call-tds, which defines no --predict.
CallTdsArgs(normalBam, dir, processes, debug) ==
    [call_tds |-> TRUE, config |-> "config.ini", bam |-> "tumour.bam",
     normalBam |-> normalBam, outDir |-> dir, processes |-> PyInt(processes),
     debug |-> PyBool(debug)]

\* args = parser.parse_args(); configFile = args.config; ...
\* A command line argparse refuses ends the process with status 2; one without
\* a subcommand parses to an empty Namespace, and args.config raises.
ParseArgs ==
    /\ pc = "parse"
    /\ \/ /\ \E nb \in NormalBams, dir \in OutDirs, p \in ProcessCounts, d \in BOOLEAN :
                \/ \E pr \in BOOLEAN : args' = CallArgs(nb, dir, p, d, pr)
                \/ args' = CallTdsArgs(nb, dir, p, d)
          /\ Goto("outdir")
       \/ /\ args' = args
          /\ Exit(2, "", "")
       \/ /\ args' = args
          /\ Exit(1, "AttributeError", "config")
    /\ UNCHANGED <<gateVars, mode, dirVars, cfgVars, bamVars, now, logVars, engVars, listVars>>

\* datetime.now().strftime("%Y%m%d%H%M%S"), of which the minute and the second
\* are kept: the clock counts the seconds since the start of the hour.
Pad2(n) == IF n < 10 THEN "0" \o ToString(n) ELSE ToString(n)
StrfTime(t) == Pad2((t \div 60) % 60) \o Pad2(t % 60)

\* The directories os.makedirs(path, exist_ok=True) makes sure exist.
Prefixes(path) == {SubSeq(path, 1, n) : n \in 1..Len(path)}

\* args.outDir + '/' + str(datetime.now().strftime(...))
DebugOutDir == Append(args.outDir, StrfTime(now))

\* 2.1 Set output dir
SetOutputDir ==
    /\ pc = "outdir"
    /\ IF Truthy(args.debug)
       THEN /\ timeStamp' = StrfTime(now)
            /\ outDir' = DebugOutDir
       ELSE /\ timeStamp' = timeStamp
            /\ outDir' = args.outDir
    /\ fs' = fs \cup Prefixes(outDir')
    /\ made' = made \cup {outDir'}
    /\ Goto("mode")
    /\ UNCHANGED <<gateVars, args, mode, cfgVars, bamVars, now, logVars, engVars, listVars>>

\* PAIRED whenever --normalBam was given, the empty path included.
ModeOf_NotNone(normalBam) == IF ~IsNone(normalBam) THEN "PAIRED" ELSE "SINGLE"

\* mode = 'PAIRED' if normalBam else 'SINGLE'
ModeOf(normalBam) == IF Truthy(normalBam) THEN "PAIRED" ELSE "SINGLE"

\* 2.2 Determine running mode
DetermineMode ==
    /\ pc = "mode"
    /\ mode' = ModeOf(args.normalBam)
    /\ Goto("config")
    /\ UNCHANGED <<gateVars, args, dirVars, cfgVars, bamVars, now, logVars, engVars, listVars>>

\* ------------------------------------- 2.3 configuration dictionary
\* meigaConfig.read(configFile); config = meigaConfig['MEIGA-SR']
ReadConfig ==
    /\ pc = "config"
    /\ \E f \in ConfigFiles :
        /\ meigaConfig' = f
        /\ IF SectionName \in DOMAIN f
           THEN Goto("general")
           ELSE Exit(1, "KeyError", SectionName)
    /\ configRead' = TRUE
    /\ confDict' = EmptyDict
    /\ UNCHANGED <<gateVars, args, mode, dirVars, readKeys, reference, refDir, bamVars,
                   now, logVars, engVars, listVars>>

\* The section proxy.
config == meigaConfig[SectionName]

\* config.get(key) on the section proxy, which answers None for an absent key.
ConfigGet(key) == IF key \in DOMAIN config THEN PyStr(config[key]) ELSE PyNone

Ok(v) == [ok |-> TRUE, val |-> v, exc |-> "", arg |-> ""]
Err(exc, arg) == [ok |-> FALSE, val |-> PyNone, exc |-> exc, arg |-> arg]

\* A converting getter of the section proxy (getint, getfloat, getboolean): None
\* for an absent key, a ValueError naming the raw value for text that does not
\* convert.
ConfigGetConv(key, converted) ==
    IF key \notin DOMAIN config THEN Ok(PyNone)
    ELSE IF converted.ok THEN Ok(converted.val) ELSE Err("ValueError", "the raw value")

\* The value of one assignment's right-hand side, or the exception it raises.
Eval(stmt) ==
    CASE stmt.conv = "get" -> Ok(ConfigGet(stmt.key))
      [] stmt.conv = "sentinel" ->
            Ok(IF ConfigGet(stmt.key) = PyStr(NoneText) THEN PyNone ELSE ConfigGet(stmt.key))
      [] stmt.conv = "getint" -> ConfigGetConv(stmt.key, ParseInt(config[stmt.key]))
      [] stmt.conv = "getfloat" -> ConfigGetConv(stmt.key, ParseFloat(config[stmt.key]))
      [] stmt.conv = "getboolean" -> ConfigGetConv(stmt.key, ParseBoolean(config[stmt.key]))
      [] stmt.conv = "list" ->
            IF IsNone(ConfigGet(stmt.key))
            THEN Err("AttributeError", "split")
            ELSE Ok(PyList(SplitStrip(config[stmt.key])))
      [] stmt.conv = "arg" ->
            IF stmt.key \in DOMAIN args
            THEN Ok(args[stmt.key])
            ELSE Err("AttributeError", stmt.key)
      [] stmt.conv = "source" -> Ok(PyStr(<<"MEIGA-SR-">> \o VERSION))
      [] stmt.conv = "targetEvents" -> Ok(PyList(<<"DISCORDANT", "CLIPPING">>))

\* The option names a right-hand side looks up in the section.
Lookups(stmt) ==
    IF stmt.conv \in {"get", "sentinel", "getint", "getfloat", "getboolean", "list"}
    THEN {stmt.key} ELSE {}

\* confDict[target] = <right-hand side>
Exec(stmt, st) ==
    LET r == Eval(stmt)
    IN  IF r.ok
        THEN [st EXCEPT !.conf = Put(st.conf, stmt.target, r.val),
                        !.read = st.read \cup Lookups(stmt)]
        ELSE [st EXCEPT !.read = st.read \cup Lookups(stmt), !.exc = r.exc, !.arg = r.arg]

\* The assignments of a block in order, up to the first that raises.
RECURSIVE RunBlock(_, _)
RunBlock(stmts, st) ==
    IF stmts = <<>> \/ st.exc # "" THEN st
    ELSE RunBlock(Tail(stmts), Exec(Head(stmts), st))

S(target, conv, key) == [target |-> target, conv |-> conv, key |-> key]

GeneralBlock ==
    << S("source", "source", ""),
       S("species", "get", "species"),
       S("build", "get", "build"),
       S("annovarDir", "get", "annovarDir"),
       S("germlineMEI", "sentinel", "germlineMEI"),
       S("processes", "arg", "processes"),
       S("debug", "arg", "debug"),
       S("predict", "arg", "predict") >>

BamProcessingBlock ==
    << S("targetBins", "sentinel", "targetBins"),
       S("binSize", "getint", "binSize"),
       S("filterDup", "getboolean", "noDuplicates"),
       S("readFilters", "list", "readFilters"),
       S("minMAPQ", "getint", "minMAPQ"),
       S("minCLIPPINGlen", "getint", "minCLIPPINGlen"),
       S("targetEvents", "targetEvents", "") >>

ClusteringBlock ==
    << S("minClusterSize", "getint", "minClusterSize"),
       S("maxClusterSize", "getint", "maxClusterSize"),
       S("maxBkpDist", "getint", "BKPdist"),
       S("minPercRcplOverlap", "getint", "minPercOverlap"),
       S("equalOrientBuffer", "getint", "equalOrientBuffer"),
       S("oppositeOrientBuffer", "getint", "oppositeOrientBuffer") >>

FilteringBlock ==
    << S("minReads", "getint", "minReads"),
       S("minNormalReads", "getint", "minNormalReads"),
       S("minNbDISCORDANT", "getint", "minClusterSize"),
       S("minNbCLIPPING", "getint", "minClusterSize"),
       S("minReadsRegionMQ", "getfloat", "minReadsRegionMQ"),
       S("maxRegionlowMQ", "getfloat", "maxRegionlowMQ"),
       S("maxRegionSMS", "getfloat", "maxRegionSMS") >>

TransductionBlock ==
    << S("retroTestWGS", "getboolean", "wgsData"),
       S("blatClip", "getboolean", "blatClip"),
       S("tdEnds", "list", "transductionEnds"),
       S("srcBed", "sentinel", "sourceBed"),
       S("srcFamilies", "list", "srcFamilies") >>

\* A block of assignments to confDict: on to `next`, or the first exception.
ResolveBlock(here, stmts, next) ==
    /\ pc = here
    /\ LET st == RunBlock(stmts, [conf |-> confDict, read |-> readKeys, exc |-> "", arg |-> ""])
       IN  /\ confDict' = st.conf
           /\ readKeys' = st.read
           /\ IF st.exc = "" THEN Goto(next) ELSE Exit(1, st.exc, st.arg)

\* ### General
ResolveGeneral ==
    /\ pc = "general"
    /\ reference' = ConfigGet("reference")
    /\ refDir' = ConfigGet("refDir")
    /\ LET st == RunBlock(GeneralBlock,
                          [conf |-> confDict, read |-> readKeys \cup {"reference", "refDir"},
                           exc |-> "", arg |-> ""])
       IN  /\ confDict' = st.conf
           /\ readKeys' = st.read
           /\ IF st.exc = "" THEN Goto("bam") ELSE Exit(1, st.exc, st.arg)
    /\ UNCHANGED <<gateVars, args, mode, dirVars, meigaConfig, configRead, bamVars, now,
                   logVars, engVars, listVars>>

\* ### BAM processing
ResolveBamProcessing ==
    /\ ResolveBlock("bam", BamProcessingBlock, "refs")
    /\ UNCHANGED <<gateVars, args, mode, dirVars, meigaConfig, configRead, reference, refDir,
                   bamVars, now, logVars, engVars, listVars>>

\* The reference names a BAM header may hold.
RefNames == {<<"a">>, <<"a", "b">>}
BamHeaders == UNION {[1..n -> RefNames] : n \in 0..MaxRefs}

\* bamtools.get_refs(bam): the header's reference names in their order, as the
\* comma-separated text that the caller splits. A header without reference
\* sequences is refused when the file is opened.
get_refs(header) ==
    IF header = <<>> THEN Err("ValueError", "file has no sequences defined")
    ELSE Ok(PyStr(Join(header, ",")))

\* The target references without their repetitions.
RECURSIVE Dedup(_)
Dedup(xs) ==
    IF xs = <<>> THEN <<>>
    ELSE LET rest == Dedup(SubSeq(xs, 1, Len(xs) - 1))
         IN  IF \E i \in 1..Len(rest) : rest[i] = xs[Len(xs)] THEN rest
             ELSE Append(rest, xs[Len(xs)])

TargetRefsOf_Dedup(refs) == Dedup(SplitStrip(refs))

\* targetRefs = [ref.strip() for ref in refs.split(',')]
TargetRefsOf(refs) == SplitStrip(refs)

\* ### Target refs
ResolveTargetRefs ==
    /\ pc = "refs"
    /\ readKeys' = readKeys \cup {"refs"}
    /\ IF ConfigGet("refs") = PyStr(AllText)
       THEN \E header \in BamHeaders :
            /\ bamRefs' = header
            /\ getRefsCalls' = getRefsCalls + 1
            /\ LET r == get_refs(header)
               IN  IF r.ok
                   THEN /\ confDict' = Put(confDict, "targetRefs", PyList(TargetRefsOf(r.val.val)))
                        /\ Goto("clustering")
                   ELSE /\ confDict' = confDict
                        /\ Exit(1, r.exc, r.arg)
       ELSE /\ UNCHANGED bamVars
            /\ IF IsNone(ConfigGet("refs"))
               THEN /\ confDict' = confDict
                    /\ Exit(1, "AttributeError", "split")
               ELSE /\ confDict' = Put(confDict, "targetRefs", PyList(TargetRefsOf(config["refs"])))
                    /\ Goto("clustering")
    /\ UNCHANGED <<gateVars, args, mode, dirVars, meigaConfig, configRead, reference, refDir,
                   now, logVars, engVars, listVars>>

\* ### Clustering
ResolveClustering ==
    /\ ResolveBlock("clustering", ClusteringBlock, "filtering")
    /\ UNCHANGED <<gateVars, args, mode, dirVars, meigaConfig, configRead, reference, refDir,
                   bamVars, now, logVars, engVars, listVars>>

\* ### Filtering thresholds
ResolveFiltering ==
    /\ ResolveBlock("filtering", FilteringBlock, "transduction")
    /\ UNCHANGED <<gateVars, args, mode, dirVars, meigaConfig, configRead, reference, refDir,
                   bamVars, now, logVars, engVars, listVars>>

\* ### Transduction search
ResolveTransduction ==
    /\ ResolveBlock("transduction", TransductionBlock, "dirs")
    /\ UNCHANGED <<gateVars, args, mode, dirVars, meigaConfig, configRead, reference, refDir,
                   bamVars, now, logVars, engVars, listVars>>

\* ------------------------------------------------ output and log dirs
\* The derivation without the creation of the logs directory.
SetOutputAndLogDirs_NoLogDir ==
    /\ pc = "dirs"
    /\ outDir' = (IF Truthy(args.debug) THEN DebugOutDir ELSE args.outDir)
    /\ confDict' = Put(Put(confDict, "outDir", PyStr(outDir')),
                       "logDir", PyStr(Append(outDir', "logs")))
    /\ fs' = fs \cup Prefixes(outDir')
    /\ made' = made \cup {outDir'}
    /\ Goto("log")
    /\ UNCHANGED <<gateVars, args, mode, timeStamp, meigaConfig, configRead, readKeys,
                   reference, refDir, bamVars, now, logVars, engVars, listVars>>

\* In debug mode the output is the specified dir + data_time; create output and
\* log dirs.
SetOutputAndLogDirs ==
    /\ pc = "dirs"
    /\ outDir' = (IF Truthy(args.debug) THEN DebugOutDir ELSE args.outDir)
    /\ LET logDir == Append(outDir', "logs")
       IN  /\ confDict' = Put(Put(confDict, "outDir", PyStr(outDir')), "logDir", PyStr(logDir))
           /\ fs' = fs \cup Prefixes(outDir') \cup Prefixes(logDir)
           /\ made' = made \cup {outDir', logDir}
    /\ Goto("log")
    /\ UNCHANGED <<gateVars, args, mode, timeStamp, meigaConfig, configRead, readKeys,
                   reference, refDir, bamVars, now, logVars, engVars, listVars>>

\* The script's logDir and logFile variables.
LogDir == confDict["logDir"].val
LogFile == Append(LogDir, "main.log")

\* log.setup_logger(logName, logFile, ...): opens the log file, which needs its
\* directory.
setup_logger(logFile) ==
    IF SubSeq(logFile, 1, Len(logFile) - 1) \in fs
    THEN Ok(logFile)
    ELSE Err("FileNotFoundError", "the log file")

\* 2.5 Initialize log system; 3. Display configuration
InitLogSystem ==
    /\ pc = "log"
    /\ LET r == setup_logger(LogFile)
       IN  IF r.ok
           THEN /\ files' = files \cup {LogFile}
                /\ logger' = TRUE
                /\ Goto("db")
           ELSE /\ UNCHANGED logVars
                /\ Exit(1, r.exc, r.arg)
    /\ UNCHANGED <<gateVars, args, mode, dirVars, cfgVars, bamVars, now, engVars, listVars>>

\* ------------------------------------------------------ 4. database gate
\* The gate that lets the run go on whatever is missing.
DatabaseGate_NoExit ==
    /\ pc = "db"
    /\ \E db \in GateReturns :
        /\ gateCalls' = Append(gateCalls, "missing_db")
        /\ gateResult' = Put(gateResult, "missing_db", db)
    /\ Goto("dispatch")
    /\ UNCHANGED <<args, mode, dirVars, cfgVars, bamVars, now, logVars, engVars, listVars>>

\* missingDB = cd.missing_db(refDir, confDict['annovarDir']); if missingDB: exit(1)
DatabaseGate ==
    /\ pc = "db"
    /\ \E db \in GateReturns :
        /\ gateCalls' = Append(gateCalls, "missing_db")
        /\ gateResult' = Put(gateResult, "missing_db", db)
        /\ IF db # {} THEN Exit(1, "", "") ELSE Goto("dispatch")
    /\ UNCHANGED <<args, mode, dirVars, cfgVars, bamVars, now, logVars, engVars, listVars>>

\* ---------------------------------------------------- execute MEI caller
Engine(kind) ==
    [kind |-> kind, mode |-> mode, bam |-> args.bam, normalBam |-> args.normalBam,
     reference |-> reference, refDir |-> refDir, confDict |-> confDict]

\* if args.call_tds: caller.transduction_caller(...) else: caller.MEI_caller(...)
EngineKind == IF args.call_tds THEN "transduction_caller" ELSE "MEI_caller"

Dispatch ==
    /\ pc = "dispatch"
    /\ engines' = Append(engines, Engine(EngineKind))
    /\ calls' = calls
    /\ Goto("call")
    /\ UNCHANGED <<gateVars, args, mode, dirVars, cfgVars, bamVars, now, logVars, listVars>>

\* meiCaller.call(): returns, or raises what the engine raises.
CallEngine ==
    /\ pc = "call"
    /\ calls' = calls + 1
    /\ engines' = engines
    /\ \/ Goto("finish")
       \/ Exit(1, "EngineError", "")
    /\ UNCHANGED <<gateVars, args, mode, dirVars, cfgVars, bamVars, now, logVars, listVars>>

\* The elapsed time is logged and the script ends.
Finish ==
    /\ pc = "finish"
    /\ Exit(0, "", "")
    /\ UNCHANGED <<gateVars, args, mode, dirVars, cfgVars, bamVars, now, logVars, engVars, listVars>>

\* The wall clock advances while the run is between two statements.
Tick ==
    /\ pc # "exit"
    /\ now < ClockStart + MaxTick
    /\ now' = now + 1
    /\ UNCHANGED <<ctlVars, gateVars, args, mode, dirVars, cfgVars, bamVars, logVars,
                   engVars, listVars>>

Next ==
    \/ DependencyGate
    \/ ParseArgs
    \/ SetOutputDir
    \/ DetermineMode
    \/ ReadConfig
    \/ ResolveGeneral
    \/ ResolveBamProcessing
    \/ ResolveTargetRefs
    \/ ResolveClustering
    \/ ResolveFiltering
    \/ ResolveTransduction
    \/ SetOutputAndLogDirs
    \/ InitLogSystem
    \/ DatabaseGate
    \/ Dispatch
    \/ CallEngine
    \/ Finish
    \/ Tick

Spec == Init /\ [][Next]_vars

\* ------------------------------------- the list-splitting specification
ListAlphabet == {"a", "b", ",", " "}

\* The values configparser can hand out: it strips the value of a line.
ConfigTexts ==
    {s \in UNION {[1..n -> ListAlphabet] : n \in 0..MaxLen} : Strip(s) = s}

InitLists ==
    /\ InitRun
    /\ listIn \in ConfigTexts
    /\ listOut = Unbound

\* confDict[...] = [x.strip() for x in config.get(...).split(',')]
ResolveList ==
    /\ listOut = Unbound
    /\ listOut' = PyList(SplitStrip(listIn))
    /\ UNCHANGED <<runVars, listIn>>

NextLists == ResolveList

SpecLists == InitLists /\ [][NextLists]_vars

\* ------------------------------------------------------------ properties
PythonGate == "missing_python_dependencies"
ProgramGate == "missing_program_dependencies"
DbGate == "missing_db"

\* Gate g was called and returned a non-empty collection.
GateFailed(g) == g \in DOMAIN gateResult /\ gateResult[g] # {}
\* Gate g was called and returned an empty collection.
GatePassed(g) == g \in DOMAIN gateResult /\ gateResult[g] = {}

Parsed == DOMAIN args # {}
DebugRun == Parsed /\ args.debug.val
SectionRead == SectionName \in DOMAIN meigaConfig
Resolved(field) == field \in DOMAIN confDict

\* C1: if missing_python_dependencies() or missing_program_dependencies()
\* returns a non-empty collection, the process exits with status 1 and the run
\* creates no directory, no log file and no logger, never reads the config file
\* and never constructs or calls an engine.
C1_DependencyGateFailure ==
    (GateFailed(PythonGate) \/ GateFailed(ProgramGate)) =>
        /\ pc = "exit"
        /\ exitCode = 1
        /\ fs = InitialDirs
        /\ made = {}
        /\ files = {}
        /\ ~logger
        /\ ~configRead
        /\ engines = <<>>
        /\ calls = 0

\* C1's case: the Python dependencies are there, a program is missing, and the
\* run has ended.
C1_Witness ==
    /\ pc = "exit"
    /\ GatePassed(PythonGate)
    /\ GateFailed(ProgramGate)

\* C2: in debug mode every directory the run creates lies under one and the
\* same <outDir>/<timestamp> root, however the wall clock advances between the
\* steps of the run.
C2_SingleTimestampRoot ==
    DebugRun => Cardinality({SubSeq(d, 1, Len(args.outDir) + 1) : d \in made}) <= 1

\* The texts that convert, by kind of key.
WellFormedOptions(o) ==
    /\ DOMAIN o = ConfigKeys
    /\ \A k \in IntKeys : ParseInt(o[k]).ok
    /\ \A k \in FloatKeys : ParseFloat(o[k]).ok
    /\ \A k \in BoolKeys : ParseBoolean(o[k]).ok

\* A run whose gates all pass, whose config file is valid and whose BAM file
\* can be read.
CleanRun ==
    /\ \A g \in DOMAIN gateResult : gateResult[g] = {}
    /\ SectionRead
    /\ WellFormedOptions(config)
    /\ getRefsCalls > 0 => bamRefs # <<>>

\* C3: for both subcommands and both modes, a run whose gates pass and whose
\* config file is valid constructs exactly one engine, MEI_caller for call and
\* transduction_caller for call-tds, hands it the mode, both sample paths,
\* reference, refDir and the configuration dictionary, and calls call() once.
C3_OneEnginePerRun ==
    (pc = "exit" /\ CleanRun) =>
        /\ Len(engines) = 1
        /\ calls = 1
        /\ engines[1].kind = (IF args.call_tds THEN "transduction_caller" ELSE "MEI_caller")
        /\ engines[1].mode = mode
        /\ engines[1].bam = args.bam
        /\ engines[1].normalBam = args.normalBam
        /\ engines[1].reference = reference
        /\ engines[1].refDir = refDir
        /\ engines[1].confDict = confDict

\* C4 as claimed: if missing_db returns a non-empty collection, the process
\* exits with status 1 and the run has created no output directory, no log
\* directory and no log file.
C4_NoPartialOutput ==
    GateFailed(DbGate) =>
        /\ pc = "exit"
        /\ exitCode = 1
        /\ fs = InitialDirs
        /\ made = {}
        /\ files = {}

\* C4 as amended: if missing_db returns a non-empty collection, the process
\* exits with status 1 and no engine is constructed or called; the output
\* directory and its logs subdirectory were created before the gate and are
\* left in place, and the logger is initialised.
C4_DatabaseGateFailure ==
    GateFailed(DbGate) =>
        /\ pc = "exit"
        /\ exitCode = 1
        /\ engines = <<>>
        /\ calls = 0
        /\ {outDir, Append(outDir, "logs")} \subseteq made
        /\ {outDir, Append(outDir, "logs")} \subseteq fs
        /\ logger

\* C4's case: the database gate returned missing databases and the run ended.
C4_Witness ==
    /\ pc = "exit"
    /\ GateFailed(DbGate)

\* A sample path that is given and not the empty string.
NonEmptyPath(v) == v.kind = "str" /\ v.val # <<>>

\* C5: the mode is PAIRED if and only if the --normalBam path is non-empty
\* (absent or the empty string gives SINGLE), as derived and as handed to the
\* engine, whatever the subcommand, the other flags and the config file.
C5_PairedIffNormalBam ==
    /\ mode # "" =>
        /\ mode \in {"PAIRED", "SINGLE"}
        /\ mode = "PAIRED" <=> NonEmptyPath(args.normalBam)
    /\ \A i \in 1..Len(engines) :
        /\ engines[i].normalBam = args.normalBam
        /\ engines[i].mode = "PAIRED" <=> NonEmptyPath(args.normalBam)
        /\ engines[i].mode = "SINGLE" <=> ~NonEmptyPath(args.normalBam)

\* C5's case: an engine was handed SINGLE for --normalBam "".
C5_Witness ==
    /\ Len(engines) = 1
    /\ engines[1].normalBam = PyStr(<<>>)
    /\ engines[1].mode = "SINGLE"

\* C6: for every key but the three "none"-sentinel keys, a key absent from the
\* MEIGA-SR section makes the resolution fail with an error naming the key, so
\* that no engine is constructed and no absent key is resolved to None.
C6_AbsentKeyRejected ==
    \A k \in ConfigKeys \ SentinelKeys :
        (k \in readKeys /\ k \notin DOMAIN config) =>
            /\ pc = "exit"
            /\ exitCode # 0
            /\ errorArg = k
            /\ engines = <<>>

\* The numeric fields of the configuration dictionary but processes.
ThresholdFields ==
    {"binSize", "minMAPQ", "minCLIPPINGlen", "minClusterSize", "maxClusterSize",
     "maxBkpDist", "minPercRcplOverlap", "equalOrientBuffer", "oppositeOrientBuffer",
     "minReads", "minNormalReads", "minNbDISCORDANT", "minNbCLIPPING",
     "minReadsRegionMQ", "maxRegionlowMQ", "maxRegionSMS"}

\* A number that is negative.
Negative(v) ==
    \/ v.kind = "int" /\ v.val < 0
    \/ v.kind = "float" /\ v.val[1] < 0

\* C7: in the configuration dictionary handed to an engine no numeric threshold
\* is negative and the process count is at least 1.
C7_ThresholdsNonNegative ==
    \A i \in 1..Len(engines) :
        /\ \A f \in ThresholdFields : ~Negative(engines[i].confDict[f])
        /\ engines[i].confDict["processes"].val >= 1

RefsIsAll == SectionRead /\ "refs" \in DOMAIN config /\ config["refs"] = AllText

Commas(s) == {i \in 1..Len(s) : s[i] = ","}
\* The place of the n-th comma; 0 before the first, Len(s)+1 after the last.
CommaAt(s, n) ==
    IF n = 0 THEN 0
    ELSE IF n > Cardinality(Commas(s)) THEN Len(s) + 1
    ELSE CHOOSE i \in Commas(s) : Cardinality({c \in Commas(s) : c <= i}) = n
\* The text between the (n-1)-th and the n-th comma.
Segment(s, n) == SubSeq(s, CommaAt(s, n - 1) + 1, CommaAt(s, n) - 1)
\* A text from its first to its last character that is not whitespace.
Trimmed(s) ==
    LET solid == {i \in 1..Len(s) : s[i] \notin Whitespace}
    IN  IF solid = {} THEN <<>>
        ELSE SubSeq(s, CHOOSE i \in solid : \A j \in solid : i <= j,
                       CHOOSE i \in solid : \A j \in solid : i >= j)

\* C9: the list resolved from a comma-separated value holds the segments
\* between the commas in their order, each without its surrounding whitespace,
\* the empty ones kept: one more element than the value has commas.
C9_ListSegments ==
    listOut.kind = "list" =>
        /\ Len(listOut.val) = Cardinality(Commas(listIn)) + 1
        /\ \A n \in 1..Len(listOut.val) : listOut.val[n] = Trimmed(Segment(listIn, n))

\* C9's case: a value with an empty segment and padded segments is resolved.
C9_Witness ==
    /\ listIn = <<",", " ", "a">>
    /\ listOut = PyList(<< <<>>, <<"a">> >>)

\* C10: the output directory and its logs subdirectory, confDict['outDir'] +
\* '/logs', exist before the logger is initialised; the logger is initialised
\* before missing_db is evaluated; an engine is constructed and called only
\* with the logger initialised and all three gates having returned empty.
C10_StepOrder ==
    /\ (pc = "log" \/ logger) =>
        /\ confDict["logDir"].val = Append(confDict["outDir"].val, "logs")
        /\ confDict["outDir"].val \in fs
        /\ confDict["logDir"].val \in fs
    /\ DbGate \in DOMAIN gateResult => logger
    /\ (engines # <<>> \/ calls > 0) =>
        /\ logger
        /\ GatePassed(PythonGate)
        /\ GatePassed(ProgramGate)
        /\ GatePassed(DbGate)
    /\ calls > 0 => engines # <<>>
    /\ calls <= Len(engines)

\* C10's case: the engine was constructed and call() has returned.
C10_Witness ==
    /\ pc = "finish"
    /\ calls = 1
    /\ logger

=============================================================================
